---- MODULE Spec2Model ----
(***************************************************************************)
(* Model of src/workflow_analyzer2.py: the script that loads a DSL         *)
(* workflow document, registers one graph node per step (PASS 1), resolves *)
(* NextStepId / SelectNextStep references into edges (PASS 2) and collects *)
(* the referenced-but-undefined step ids in missing_nodes.                 *)
(*                                                                         *)
(* Strings that the code splits (Name, StepType) are sequences of tokens,  *)
(* the separators being tokens of their own, so that str.split is computed *)
(* and not assumed.  JSON values that may be absent, null or a string are  *)
(* tagged records.                                                         *)
(***************************************************************************)
EXTENDS Integers, Sequences, FiniteSets, TLC

\* ---------------------------------------------------------------- bounds
\* The size of a document: its steps, NextStepId members and SelectNextStep
\* entries (see Weight).
MaxSize == 5

\* ------------------------------------------------------------ JSON values
JAbsent == [t |-> "absent", v |-> ""]
JNull == [t |-> "null", v |-> ""]
JStr(s) == [t |-> "str", v |-> s]

\* Python's None, which json.load also produces for a JSON null.
None == JNull

\* The step ids of the bounded documents; "" is a legal JSON string.
StepIdUniverse == {"", "A", "B"}

\* Name values: one with the " - " delimiter, one without.
GoodName == <<"Get", " - ", "Order">>

BadName == <<"Start">>

NameUniverse == {GoodName, BadName}

\* An assembly-qualified type name, as in the DSL files.
StepTypeUniverse == {<<"Flow", ".", "DecideStep", ",", "Core">>}

TopLevelKeys == {"Id", "Version", "ReleaseVersion", "DataType", "Steps"}

\* Condition expressions of the k-th SelectNextStep entry (opaque strings).
ConditionAt(k) == IF k = 1 THEN "expr" ELSE "expr" \o "2"

SeqsUpTo(S, n) == UNION {[1..m -> S] : m \in 0..n}

\* The sequences of length <= n of distinct elements of S: the key orders a
\* JSON object can have after json.load (a dict keeps one entry per key).
InjectiveSeqs(S, n) ==
  {s \in SeqsUpTo(S, n) : \A a, b \in 1..Len(s) : a # b => s[a] # s[b]}

SelectNextStepUniverse ==
  {[present |-> FALSE, items |-> <<>>]} \cup
  {[present |-> TRUE,
    items |-> [k \in 1..Len(ks) |-> [key |-> ks[k], cond |-> ConditionAt(k)]]] :
      ks \in InjectiveSeqs(StepIdUniverse, Cardinality(StepIdUniverse))}

NextStepIdUniverse == {JAbsent, JNull} \cup {JStr(s) : s \in StepIdUniverse}

StepUniverse ==
  [Id : StepIdUniverse, Name : NameUniverse, StepType : StepTypeUniverse,
   NextStepId : NextStepIdUniverse, SelectNextStep : SelectNextStepUniverse]

\* The size of a step: 1, plus 1 for a NextStepId member, plus the number of
\* SelectNextStep entries (1 for a SelectNextStep member without entries).
Weight(step) ==
  1 + (IF step.NextStepId.t = "absent" THEN 0 ELSE 1)
    + (IF step.SelectNextStep.present /\ step.SelectNextStep.items = <<>>
       THEN 1 ELSE Len(step.SelectNextStep.items))

\* The steps whose Name has the delimiter.
GoodSteps == {y : y \in {x \in StepUniverse : x.Name = GoodName}}

\* Those of size at most 1, 2, 3 and 4; no step of StepUniverse is larger
\* than 5.
Within1 == {y : y \in {x \in GoodSteps : Weight(x) <= 1}}

Within2 == {y : y \in {x \in GoodSteps : Weight(x) <= 2}}

Within3 == {y : y \in {x \in GoodSteps : Weight(x) <= 3}}

Within4 == {y : y \in {x \in GoodSteps : Weight(x) <= 4}}

\* The steps of size at most w whose Name has the delimiter.
StepsWithin(w) ==
  CASE w <= 0 -> {}
    [] w = 1 -> Within1
    [] w = 2 -> Within2
    [] w = 3 -> Within3
    [] w = 4 -> Within4
    [] OTHER -> GoodSteps

\* A step that names no successor.
Refless(step) == step.NextStepId = JAbsent /\ ~step.SelectNextStep.present

\* The "Steps" arrays in which a Name lacks the delimiter: at most MaxSize
\* steps without successors (such a Name ends the run in PASS 1, before any
\* successor is read), exactly one of them with that Name.
BadNameArrays ==
  {q \in SeqsUpTo({x \in StepUniverse : Refless(x)}, MaxSize) :
     Cardinality({k \in 1..Len(q) : q[k].Name = BadName}) = 1}

\* A well-formed document with the array q as its "Steps".
Document(q) ==
  [keys |-> TopLevelKeys, kind |-> "array", items |-> q, elems |-> <<>>]

\* The documents the load rejects or that have no array as "Steps".  keys
\* are the top-level keys present.  kind is the JSON type of the "Steps"
\* value: an array of step objects (items); an object or a string, whose
\* iteration yields its keys or characters (elems); null; or none when the
\* key is absent.
OtherDocuments ==
  {[keys |-> TopLevelKeys, kind |-> k, items |-> <<>>, elems |-> q] :
      k \in {"object", "string"}, q \in SeqsUpTo({"k"}, 1)}
  \cup {[keys |-> TopLevelKeys, kind |-> "null", items |-> <<>>, elems |-> <<>>]}
  \cup {[keys |-> ks, kind |-> "array", items |-> <<>>, elems |-> <<>>] :
      ks \in {k \in SUBSET TopLevelKeys : "Steps" \in k /\ k # TopLevelKeys}}
  \cup {[keys |-> ks, kind |-> "none", items |-> <<>>, elems |-> <<>>] :
      ks \in SUBSET (TopLevelKeys \ {"Steps"})}

\* dsl_data        the parsed document (line 14)
\* pc              where the script is: "start", "nodes" (PASS 1), "direct" and
\*                 "cond" (PASS 2), "done", "error" (load raised), "aborted"
\*                 (PASS 1 raised)
\* i, j            the step of the running pass, the SelectNextStep entry
\* valid_step_ids  line 45
\* missing_nodes   line 46
\* nodes, edges    net.nodes and net.edges of the pyvis Network of line 49
\* err             the exception that ended the run
\* prev            what the first run left, once the script runs again
VARIABLES dsl_data, pc, i, j, valid_step_ids, missing_nodes, nodes, edges,
          err, prev

vars == <<dsl_data, pc, i, j, valid_step_ids, missing_nodes, nodes, edges,
          err, prev>>

\* The uploaded file holds a well-formed document with q as its "Steps".
Uploaded(q) == dsl_data = Document(q)

RECURSIVE UploadedSized(_, _)
\* The uploaded file holds a document whose "Steps" array starts with the
\* steps of prefix and goes on with steps of total size at most budget, all
\* Names having the delimiter.
UploadedSized(prefix, budget) ==
  \/ Uploaded(prefix)
  \/ \E x \in StepsWithin(budget) :
       UploadedSized(Append(prefix, x), budget - Weight(x))

Init ==
  /\ \/ UploadedSized(<<>>, MaxSize)
     \/ \E q \in BadNameArrays : Uploaded(q)
     \/ dsl_data \in OtherDocuments
  /\ pc = "start"
  /\ i = 0
  /\ j = 0
  /\ valid_step_ids = {}
  /\ missing_nodes = <<>>
  /\ nodes = <<>>
  /\ edges = <<>>
  /\ err = "none"
  /\ prev = <<>>

\* ------------------------------------------------------- pure helpers
RECURSIVE Split(_, _)
\* str.split(sep) on a token sequence: the pieces between occurrences of sep.
Split(s, sep) ==
  IF \A k \in 1..Len(s) : s[k] # sep THEN <<s>>
  ELSE LET k == CHOOSE m \in 1..Len(s) :
                  s[m] = sep /\ \A q \in 1..(m - 1) : s[q] # sep
       IN <<SubSeq(s, 1, k - 1)>> \o Split(SubSeq(s, k + 1, Len(s)), sep)

\* step["StepType"].split(",")[0].split(".")[-1]
NormalizedStepType(step_type) ==
  LET first == Split(step_type, ",")[1]
      parts == Split(first, ".")
  IN parts[Len(parts)]

\* type_colors.get(step_type, "#a6cee3")
TypeColor(step_type) ==
  CASE step_type = <<"ApiCallerStep">> -> "#1f78b4"
    [] step_type = <<"ContextConfiguratorStep">> -> "#33a02c"
    [] step_type = <<"DecideStep">> -> "#ff7f00"
    [] step_type = <<"MessageSenderStep">> -> "#e31a1c"
    [] OTHER -> "#a6cee3"

\* step["Name"].split(" - ")
LabelParts(step) == Split(step.Name, " - ")

\* label_parts[1] raises IndexError when the Name has no " - ".
LabelRaises(step) == Len(LabelParts(step)) < 2

\* label_parts[0] + newline + label_parts[1]
Label(step) == <<LabelParts(step)[1], "\n", LabelParts(step)[2]>>

\* dict.get("NextStepId"): None when the key is absent (or holds null).
GetNextStepId(step) ==
  IF step.NextStepId.t = "absent" THEN None ELSE step.NextStepId

\* Truthy with the empty string counted as a value (a test "is not None").
Truthy_NotNone(x) == x.t = "str"

\* Python truthiness of a str-or-None value.
Truthy(x) == x.t = "str" /\ x.v # ""

\* InValid without the membership test.
InValid_Unchecked(x, valid) == x.t = "str"

\* x in valid_step_ids
InValid(x, valid) == x.t = "str" /\ x.v \in valid

\* ValidStepIds that stops one step short of the end of the document.
ValidStepIds_ButLast(steps) == {steps[k].Id : k \in 1..(Len(steps) - 1)}

\* set(step['Id'] for step in dsl_data['Steps'])
ValidStepIds(steps) == {steps[k].Id : k \in 1..Len(steps)}

\* pyvis Network.add_node: a node id already present is not added again.
add_node(net_nodes, n) ==
  IF \E k \in 1..Len(net_nodes) : net_nodes[k].id = n.id
  THEN net_nodes ELSE Append(net_nodes, n)

\* add_edge that inserts at the front of the edge list.
add_edge_Front(net_edges, e) == <<e>> \o net_edges

\* add_edge that drops an edge whose endpoints already have one (what pyvis
\* does on an undirected network).
add_edge_Unique(net_edges, e) ==
  IF \E k \in 1..Len(net_edges) :
       net_edges[k].from = e.from /\ net_edges[k].to = e.to
  THEN net_edges ELSE Append(net_edges, e)

\* pyvis Network.add_edge on a directed network: always appended.
add_edge(net_edges, e) == Append(net_edges, e)

DirectEdge(from, to) ==
  [from |-> from, to |-> to, title |-> <<>>, color |-> "default", dash |-> FALSE]

ConditionalEdge(from, to, condition) ==
  [from |-> from, to |-> to, title |-> <<condition>>, color |-> "#ffa500",
   dash |-> TRUE]

\* The top-level lookups of lines 19-28 raise KeyError / TypeError: a
\* missing key, a "Steps" value that cannot be iterated (null), or one whose
\* iteration yields something that cannot be indexed with 'Id' (the keys of
\* a non-empty object, the characters of a non-empty string).
LoadRaises(d) ==
  \/ d.keys # TopLevelKeys
  \/ d.kind = "null"
  \/ d.kind \in {"object", "string"} /\ Len(d.elems) > 0

Steps == dsl_data.items

\* ---------------------------------------------------------------- actions
\* LoadOk that keeps the missing_nodes list of the previous run.
LoadOk_Stale ==
  /\ pc = "start"
  /\ ~LoadRaises(dsl_data)
  /\ valid_step_ids' = ValidStepIds(Steps)
  /\ nodes' = <<>>
  /\ edges' = <<>>
  /\ i' = 1
  /\ j' = 0
  /\ pc' = IF Len(Steps) = 0 THEN "done" ELSE "nodes"
  /\ UNCHANGED <<dsl_data, missing_nodes, err, prev>>

\* Lines 12-49: metadata lookups, step_id_to_name, valid_step_ids,
\* missing_nodes = [], net = Network(...).
LoadOk ==
  /\ pc = "start"
  /\ ~LoadRaises(dsl_data)
  /\ valid_step_ids' = ValidStepIds(Steps)
  /\ missing_nodes' = <<>>
  /\ nodes' = <<>>
  /\ edges' = <<>>
  /\ i' = 1
  /\ j' = 0
  /\ pc' = IF Len(Steps) = 0 THEN "done" ELSE "nodes"
  /\ UNCHANGED <<dsl_data, err, prev>>

\* Lines 19-28 raising: the script run ends with an exception.
LoadFail ==
  /\ pc = "start"
  /\ LoadRaises(dsl_data)
  /\ err' = IF dsl_data.keys # TopLevelKeys THEN "KeyError" ELSE "TypeError"
  /\ pc' = "error"
  /\ UNCHANGED <<dsl_data, i, j, valid_step_ids, missing_nodes, nodes, edges,
                 prev>>

\* Lines 52-62, one iteration of PASS 1.
AddNode ==
  /\ pc = "nodes"
  /\ ~LabelRaises(Steps[i])
  /\ LET step == Steps[i]
     IN nodes' = add_node(nodes,
                   [id |-> step.Id, label |-> Label(step),
                    color |-> TypeColor(NormalizedStepType(step.StepType)),
                    title |-> step.Id, shape |-> "box"])
  /\ IF i < Len(Steps)
     THEN i' = i + 1 /\ pc' = "nodes"
     ELSE i' = 1 /\ pc' = "direct"
  /\ UNCHANGED <<dsl_data, j, valid_step_ids, missing_nodes, edges, err, prev>>

\* Lines 58-61 raising IndexError: the script run ends inside PASS 1.
AddNodeFail ==
  /\ pc = "nodes"
  /\ LabelRaises(Steps[i])
  /\ err' = "IndexError"
  /\ pc' = "aborted"
  /\ UNCHANGED <<dsl_data, i, j, valid_step_ids, missing_nodes, nodes, edges,
                 prev>>

\* Where PASS 2 goes after the SelectNextStep entries of step i are done.
AfterStep(k) ==
  IF k < Len(Steps) THEN [pc |-> "direct", i |-> k + 1]
  ELSE [pc |-> "done", i |-> k]

\* Lines 67-71 of one iteration of PASS 2: the NextStepId of step i.
EdgeDirect ==
  /\ pc = "direct"
  /\ LET step == Steps[i]
         next_step_id == GetNextStepId(step)
     IN /\ IF Truthy(next_step_id) /\ InValid(next_step_id, valid_step_ids)
           THEN /\ edges' = add_edge(edges, DirectEdge(step.Id, next_step_id.v))
                /\ UNCHANGED missing_nodes
           ELSE IF Truthy(next_step_id)
           THEN /\ missing_nodes' = Append(missing_nodes, next_step_id.v)
                /\ UNCHANGED edges
           ELSE UNCHANGED <<edges, missing_nodes>>
        /\ IF step.SelectNextStep.present /\ Len(step.SelectNextStep.items) > 0
           THEN pc' = "cond" /\ j' = 1 /\ i' = i
           ELSE pc' = AfterStep(i).pc /\ i' = AfterStep(i).i /\ j' = 0
  /\ UNCHANGED <<dsl_data, valid_step_ids, nodes, err, prev>>

\* Lines 75-79: the j-th entry of step i's SelectNextStep.
EdgeConditional ==
  /\ pc = "cond"
  /\ LET step == Steps[i]
         entry == step.SelectNextStep.items[j]
     IN /\ IF InValid(JStr(entry.key), valid_step_ids)
           THEN /\ edges' = add_edge(edges,
                              ConditionalEdge(step.Id, entry.key, entry.cond))
                /\ UNCHANGED missing_nodes
           ELSE /\ missing_nodes' = Append(missing_nodes, entry.key)
                /\ UNCHANGED edges
        /\ IF j < Len(step.SelectNextStep.items)
           THEN j' = j + 1 /\ pc' = "cond" /\ i' = i
           ELSE pc' = AfterStep(i).pc /\ i' = AfterStep(i).i /\ j' = 0
  /\ UNCHANGED <<dsl_data, valid_step_ids, nodes, err, prev>>

\* What one script run leaves on the page.
Result ==
  [pc |-> pc, err |-> err, nodes |-> nodes, edges |-> edges,
   missing |-> missing_nodes]

\* Streamlit runs the script a second time, from its first line, on the same
\* upload; prev keeps what the first run left.
Rerun ==
  /\ pc \in {"done", "error", "aborted"}
  /\ prev = <<>>
  /\ prev' = <<Result>>
  /\ pc' = "start"
  /\ err' = "none"
  /\ i' = 0
  /\ j' = 0
  /\ UNCHANGED <<dsl_data, valid_step_ids, missing_nodes, nodes, edges>>

Next ==
  \/ LoadOk
  \/ LoadFail
  \/ AddNode
  \/ AddNodeFail
  \/ EdgeDirect
  \/ EdgeConditional
  \/ Rerun


Spec == Init /\ [][Next]_vars

\* ------------------------------------------------- vocabulary of the claims
Range(s) == {s[k] : k \in 1..Len(s)}

\* The ids of the registered nodes.
NodeIds == {nodes[k].id : k \in 1..Len(nodes)}

\* The Ids of the steps of the document.
DefinedIds == {Steps[k].Id : k \in 1..Len(Steps)}

\* The keys of step k's SelectNextStep, in insertion order.
SelectEntries(k) == Steps[k].SelectNextStep.items

SelectKeys(k) == {SelectEntries(k)[m].key : m \in 1..Len(SelectEntries(k))}

\* Step k names a NextStepId (any JSON string, the empty one included).
HasNext(k) == Steps[k].NextStepId.t = "str"

\* Step k names a non-empty NextStepId.
HasNonEmptyNext(k) == HasNext(k) /\ Steps[k].NextStepId.v # ""

NextOf(k) == Steps[k].NextStepId.v

UniqueIds == \A a, b \in 1..Len(Steps) : a # b => Steps[a].Id # Steps[b].Id

RECURSIVE Sum(_, _)
\* f[1] + ... + f[n]
Sum(f, n) == IF n = 0 THEN 0 ELSE f[n] + Sum(f, n - 1)

RECURSIVE Concat(_, _)
\* f[1] \o ... \o f[n]
Concat(f, n) == IF n = 0 THEN <<>> ELSE Concat(f, n - 1) \o f[n]

RECURSIVE SelectSeq2(_, _)
\* The entries of a SelectNextStep whose key is a defined step, in order.
SelectSeq2(entries, ids) ==
  IF entries = <<>> THEN <<>>
  ELSE (IF Head(entries).key \in ids THEN <<Head(entries)>> ELSE <<>>)
       \o SelectSeq2(Tail(entries), ids)

\* ------------------------------------------------------------------ C1
\* C1: in every state, every edge of the edge sequence has its 'from' id and
\* its 'to' id among the ids of the registered nodes.
C1_EdgesJoinRegisteredNodes ==
  \A k \in 1..Len(edges) : edges[k].from \in NodeIds /\ edges[k].to \in NodeIds

\* The edge phase is under way, has appended an edge and has refused one.
C1_Witness == pc = "cond" /\ edges # <<>> /\ missing_nodes # <<>>

\* ------------------------------------------------------------------ C2
\* The ids named as a NextStepId (any string) or as a SelectNextStep key.
C2_ReferencedIds ==
  {NextOf(k) : k \in {q \in 1..Len(Steps) : HasNext(q)}}
  \cup UNION {SelectKeys(k) : k \in 1..Len(Steps)}

\* The same, a NextStepId counting only when it is not the empty string.
C2_NonEmptyReferencedIds ==
  {NextOf(k) : k \in {q \in 1..Len(Steps) : HasNonEmptyNext(q)}}
  \cup UNION {SelectKeys(k) : k \in 1..Len(Steps)}

\* C2 as stated: once the edge phase has finished, set(missing_nodes) is
\* exactly the set of ids that are the NextStepId of some step or a
\* SelectNextStep key and are the Id of no step.
C2_Original ==
  pc = "done" => Range(missing_nodes) = C2_ReferencedIds \ DefinedIds

\* C2 as amended: once the edge phase has finished, set(missing_nodes) is
\* exactly the set of ids that are a non-empty NextStepId of some step or a
\* SelectNextStep key and are the Id of no step; it holds no id that is the
\* target of an edge.
C2_MissingIsUndefinedReferences ==
  pc = "done" =>
    /\ Range(missing_nodes) = C2_NonEmptyReferencedIds \ DefinedIds
    /\ \A k \in 1..Len(edges) : edges[k].to \notin Range(missing_nodes)

\* A finished build with a reported id, an edge, and an empty NextStepId
\* that names no step.
C2_Witness ==
  /\ pc = "done"
  /\ missing_nodes # <<>>
  /\ edges # <<>>
  /\ "" \notin DefinedIds
  /\ \E k \in 1..Len(Steps) : HasNext(k) /\ NextOf(k) = ""

\* ------------------------------------------------------------------ C3
\* The edge phase runs only on the complete node set.
C3_NodesBeforeEdges == pc \in {"direct", "cond", "done"} => NodeIds = DefinedIds

\* Step a's reference to step b by NextStepId has its Direct edge and is not
\* reported.
C3_NextResolved(a, b) ==
  /\ DirectEdge(Steps[a].Id, Steps[b].Id) \in Range(edges)
  /\ Steps[b].Id \notin Range(missing_nodes)

\* Step a's references to step b by SelectNextStep key have their
\* Conditional edges and are not reported.
C3_SelectResolved(a, b) ==
  \A m \in 1..Len(SelectEntries(a)) :
    SelectEntries(a)[m].key = Steps[b].Id =>
      /\ ConditionalEdge(Steps[a].Id, Steps[b].Id, SelectEntries(a)[m].cond)
           \in Range(edges)
      /\ Steps[b].Id \notin Range(missing_nodes)

\* C3 as stated: the node phase is complete before the edge phase, and in the
\* finished build every reference of a step to a step defined later in the
\* document has its edge and is not reported.
C3_Original ==
  /\ C3_NodesBeforeEdges
  /\ pc = "done" =>
       \A a, b \in 1..Len(Steps) :
         a < b =>
           /\ (HasNext(a) /\ NextOf(a) = Steps[b].Id) => C3_NextResolved(a, b)
           /\ C3_SelectResolved(a, b)

\* C3 as amended: the node phase is complete before the edge phase, and in
\* the finished build every reference of a step, by a non-empty NextStepId or
\* by a SelectNextStep key, to a step defined later in the document has its
\* edge and is not reported; so has every such reference to a step defined
\* earlier, or to the step itself.
C3_ForwardReferencesResolve ==
  /\ C3_NodesBeforeEdges
  /\ pc = "done" =>
       \A a, b \in 1..Len(Steps) :
         /\ (HasNonEmptyNext(a) /\ NextOf(a) = Steps[b].Id)
              => C3_NextResolved(a, b)
         /\ C3_SelectResolved(a, b)

\* A finished build in which the first step names the last one twice, by
\* NextStepId and by SelectNextStep key, and the last names the first.
C3_Witness ==
  /\ pc = "done"
  /\ Len(Steps) >= 2
  /\ UniqueIds
  /\ HasNonEmptyNext(1) /\ NextOf(1) = Steps[Len(Steps)].Id
  /\ Steps[Len(Steps)].Id \in SelectKeys(1)
  /\ Steps[1].Id \in SelectKeys(Len(Steps))
  /\ Len(edges) >= 3

\* ------------------------------------------------------------------ C4
\* C4 as stated: for a document that passed loading, once the node phase has
\* ended the node ids are the Ids of all steps, and with unique Ids there are
\* as many nodes as steps.
C4_Original ==
  pc \in {"direct", "cond", "done", "aborted"} =>
    /\ NodeIds = DefinedIds
    /\ UniqueIds => Len(nodes) = Len(Steps)

\* ------------------------------------------------------------------ C5
\* The Conditional edges of step k, in the insertion order of SelectNextStep.
C5_ConditionalEdges(k) ==
  LET kept == SelectSeq2(SelectEntries(k), DefinedIds)
  IN [m \in 1..Len(kept) |->
        ConditionalEdge(Steps[k].Id, kept[m].key, kept[m].cond)]

\* The edge sequence in which the steps of has have their Direct edge.
C5_Ordered(has) ==
  Concat([k \in 1..Len(Steps) |->
            (IF k \in has THEN <<DirectEdge(Steps[k].Id, NextOf(k))>> ELSE <<>>)
            \o C5_ConditionalEdges(k)],
         Len(Steps))

\* C5: in the finished build the edge sequence is, step after step in
\* document order, the step's Direct edge (label-free) if it has one,
\* followed by its Conditional edges in the insertion order of
\* SelectNextStep, each carrying its condition string.
C5_EdgesInDocumentOrder ==
  pc = "done" =>
    \E has \in SUBSET {k \in 1..Len(Steps) : HasNext(k) /\ NextOf(k) \in DefinedIds} :
      edges = C5_Ordered(has)

\* A finished build of three steps with distinct Ids, the first naming the
\* second by NextStepId and the third by a SelectNextStep key: the edge
\* sequence is exactly its Direct edge, then its Conditional edge.
C5_Witness ==
  /\ pc = "done"
  /\ Len(Steps) = 3
  /\ UniqueIds
  /\ edges = <<DirectEdge(Steps[1].Id, Steps[2].Id),
               ConditionalEdge(Steps[1].Id, Steps[3].Id, "expr")>>

\* ------------------------------------------------------------------ C6
\* The number of SelectNextStep entries of step k that name a defined step.
C6_ResolvableEntries(k) == Len(SelectSeq2(SelectEntries(k), DefinedIds))

\* The resolvable references of each step, counted with multiplicity, a
\* NextStepId being resolvable when it is the Id of a step.
C6_Resolvable ==
  [k \in 1..Len(Steps) |->
     (IF HasNext(k) /\ NextOf(k) \in DefinedIds THEN 1 ELSE 0)
     + C6_ResolvableEntries(k)]

\* The same, a NextStepId being resolvable when it is non-empty and the Id
\* of a step.
C6_ResolvableNonEmpty ==
  [k \in 1..Len(Steps) |->
     (IF HasNonEmptyNext(k) /\ NextOf(k) \in DefinedIds THEN 1 ELSE 0)
     + C6_ResolvableEntries(k)]

\* C6 as stated: when the edge phase reaches step i it has appended one edge
\* per resolvable reference of the steps before it (1 + k for a step with a
\* resolvable NextStepId and k resolvable entries), and the finished build
\* has one edge per resolvable reference of the document.
C6_Original ==
  /\ pc = "direct" => Len(edges) = Sum(C6_Resolvable, i - 1)
  /\ pc = "done" => Len(edges) = Sum(C6_Resolvable, Len(Steps))

\* C6 as amended: the same, a NextStepId counting as resolvable only when it
\* is not the empty string.
C6_OneEdgePerResolvableReference ==
  /\ pc = "direct" => Len(edges) = Sum(C6_ResolvableNonEmpty, i - 1)
  /\ pc = "done" => Len(edges) = Sum(C6_ResolvableNonEmpty, Len(Steps))

\* A finished build in which a step names the same defined target by
\* NextStepId and by SelectNextStep key, and both edges are in the sequence.
C6_Witness ==
  /\ pc = "done"
  /\ \E k \in 1..Len(Steps) :
       /\ HasNonEmptyNext(k)
       /\ NextOf(k) \in DefinedIds
       /\ NextOf(k) \in SelectKeys(k)
       /\ C6_ResolvableEntries(k) = 2
  /\ \E p, q \in 1..Len(edges) :
       p < q /\ edges[p].from = edges[q].from /\ edges[p].to = edges[q].to

\* ------------------------------------------------------------------ C7
\* The documents the loader is to reject: a required top-level key is
\* absent, or the "Steps" value is not an array.
C7_MustFail == dsl_data.keys # TopLevelKeys \/ dsl_data.kind # "array"

\* C7 as stated: for such a document the run ends in an error with no node,
\* no edge and no missing reference built.
C7_Original ==
  (C7_MustFail /\ pc # "start") =>
    pc = "error" /\ nodes = <<>> /\ edges = <<>> /\ missing_nodes = <<>>

\* ------------------------------------------------------------------ C8
\* C8 as stated: once a document has passed loading, construction never
\* aborts.
C8_Original == pc # "aborted"

\* ------------------------------------------------------------------ C9
\* C9: the second run of the script on a document ends with the same nodes,
\* the same edges in the same order, the same missing references and the
\* same outcome as the first run on that document.
C9_RerunsAgree ==
  pc \in {"done", "error", "aborted"} =>
    \A r \in 1..Len(prev) : prev[r] = Result

\* A second run has finished a build with edges and missing references.
C9_Witness ==
  /\ pc = "done"
  /\ edges # <<>>
  /\ missing_nodes # <<>>
  /\ Len(prev) = 1

\* ----------------------------------------------------------------- C10
\* C10: the step of the edge phase that handles a NextStepId which is null or
\* the empty string appends no edge and records no missing reference, and
\* goes on to the step's SelectNextStep entries when there are any.
C10_EmptyNextIsNoNext ==
  [][(pc = "direct" /\ Steps[i].NextStepId \in {JNull, JStr("")}) =>
       /\ edges' = edges
       /\ missing_nodes' = missing_nodes
       /\ Len(SelectEntries(i)) > 0 => (pc' = "cond" /\ i' = i /\ j' = 1)
       /\ Len(SelectEntries(i)) = 0 => pc' \in {"direct", "done"}]_vars

\* The edge phase has just passed an empty NextStepId, a step with the empty
\* Id exists, and it is at the first SelectNextStep entry of that step.
C10_Witness ==
  /\ pc = "cond"
  /\ j = 1
  /\ Steps[i].NextStepId = JStr("")
  /\ "" \in DefinedIds
  /\ "" \in NodeIds
====
